---- MODULE Spec2Model ----
(***************************************************************************)
(* AgroRiskFuzzy (src/src/projeto_fuzzy/fuzzy_system.py): a Mamdani fuzzy  *)
(* controller built on scikit-fuzzy's control API.  Three antecedents      *)
(* (anomalia_termica, deficit_hidrico, anomalia_ndvi), one consequent      *)
(* (risco_quebra_safra), 47 rules, one ControlSystemSimulation object that *)
(* every call of simular() writes its inputs into and reads its output     *)
(* from.                                                                   *)
(*                                                                         *)
(* Numbers.  Crisp values are floats in the program; the model computes in *)
(* exact fixed point:                                                      *)
(*   anomalia_termica   in degrees             (universe step 1)           *)
(*   deficit_hidrico    in mm                  (universe step 1)           *)
(*   anomalia_ndvi      in hundredths          (universe step 0.01)        *)
(*   membership degrees in 1/YS                                            *)
(*   abscissae of the consequent   in 1/XS of a risk point                *)
(*   risk scores        in whole grains of Grain/XS = 6/7 of a point       *)
(*                                                                         *)
(* The universe of anomalia_ndvi is np.arange(-0.4, 0.41, 0.01), which     *)
(* numpy fills as start + i * delta with delta = (start + step) - start.   *)
(* In doubles delta is 0.010000000000000009, so the grid point i lies      *)
(* above the hundredth -0.4 + i/100 by i * 8.7e-18 and the last one is     *)
(* 0.4000000000000007.  Every breakpoint of the ndvi terms is a hundredth, *)
(* so it falls just left of its grid point: the sampled curve cuts the     *)
(* corner, and the degree at a breakpoint is off by some 1e-15 (nonzero at *)
(* a foot, short of 1 at a shoulder; at 0.4, where the curve drops from 1  *)
(* to 0 within one step, it is 6.7e-14).  The first six grid points round  *)
(* to the double of the hundredth itself.  The model keeps the excess as a *)
(* positive infinitesimal eps: a number is a pair <<s, e>> standing for    *)
(* s + e * eps, ordered first by s and then by e, and the grid point i of  *)
(* anomalia_ndvi is <<NDVI_MIN + i, i>> from the seventh on.  The other    *)
(* three universes are integers and exact.                                 *)
(*                                                                         *)
(* For every input on the grids of the three universes (whole degrees,     *)
(* whole mm, hundredths of ndvi) every degree, every sample of the         *)
(* aggregated curve and every crossing abscissa is a whole number of these *)
(* units, and the centroid is computed exactly.  The                       *)
(* program's double differs from the exact centroid by the rounding error  *)
(* of its sums: about 1e-14 as a rule, and up to 0.05 of a point when      *)
(* every cut is of the order of 1e-15 and the curve's area is as small.    *)
(* The digits below that are rounding noise, and the model does not keep   *)
(* them: a score is the number of whole grains of 6/7 of a point in the    *)
(* centroid.  A category spans 35 grains, so the thresholds 30, 60 and 90  *)
(* are whole grains and categorizar decides on grains as it does on the    *)
(* double; the round scores the rounding straddles (15, 32.5, 47.5, 77.5,  *)
(* 80) lie inside a grain.                                                 *)
(***************************************************************************)
EXTENDS Integers, Sequences, FiniteSets

\* Fixed-point scale of a membership degree: 1.0 is YS = 2 * 3^2 * 5^2 * 7^2,
\* a multiple of the denominators of every degree an input of the universes'
\* grids has (3, 5, 7, 10, 50, 75), of those of the consequent's samples (15,
\* 35) and of those of the values two overlapping consequent terms take at
\* each other's crossing points (3 and 7 times the former).
YS == 22050

\* Fixed-point scale of the consequent axis: one risk point is XS, a multiple
\* of the denominators of every abscissa at which a term's ramp (of width
\* 15, 17.5 or 7.5) reaches such a degree.
XS == 420

\* The grain of a risk score, in 1/XS of a point: a score is kept in whole
\* grains of Grain / XS = 6/7 of a point (35 grains to the 30 points between
\* two thresholds of categorizar, the integers 15 and 80 and the halves 32.5,
\* 47.5 and 77.5 inside a grain).
Grain == 360

\* Exact quotient with either sign of the divisor (den # 0).
Quot(num, den) == IF den > 0 THEN num \div den ELSE (0 - num) \div (0 - den)

(***************************************************************************)
(* Numbers with an infinitesimal part.                                     *)
(***************************************************************************)
H(s) == <<s, 0>>

Less(p, q) == p[1] < q[1] \/ (p[1] = q[1] /\ p[2] < q[2])
LessEq(p, q) == ~Less(q, p)

Min(p, q) == IF LessEq(p, q) THEN p ELSE q
Max(p, q) == IF LessEq(q, p) THEN p ELSE q

Sign(e) == IF e > 0 THEN 1 ELSE IF e < 0 THEN -1 ELSE 0

(***************************************************************************)
(* Membership function generators, as scikit-fuzzy computes them, at the   *)
(* abscissa x = <<s, e>>.                                                  *)
(***************************************************************************)

\* fuzz.trimf(x, [a, b, c]): 0, then the two open ramps, then 1 at x = b.
trimf(x, a, b, c) ==
    IF x = H(b) THEN H(YS)
    ELSE IF Less(H(a), x) /\ Less(x, H(b))
         THEN <<((x[1] - a) * YS) \div (b - a), (x[2] * YS) \div (b - a)>>
    ELSE IF Less(H(b), x) /\ Less(x, H(c))
         THEN <<((c - x[1]) * YS) \div (c - b), (0 - x[2] * YS) \div (c - b)>>
    ELSE H(0)

\* fuzz.trapmf(x, [a, b, c, d]): ones, overwritten by trimf(a,b,b) where
\* x <= b, then by trimf(c,c,d) where x >= c, then zeroed outside [a, d].
trapmf(x, a, b, c, d) ==
    LET y0 == H(YS)
        y1 == IF LessEq(x, H(b)) THEN trimf(x, a, b, b) ELSE y0
        y2 == IF LessEq(H(c), x) THEN trimf(x, c, c, d) ELSE y1
        y3 == IF Less(x, H(a)) THEN H(0) ELSE y2
    IN  IF Less(H(d), x) THEN H(0) ELSE y3

(***************************************************************************)
(* _definir_variaveis: the four universes.                                 *)
(***************************************************************************)
AT_MIN == -15
AT_MAX == 15
DH_MIN == 0
DH_MAX == 300
NDVI_MIN == -40
NDVI_MAX == 40
RQ_MIN == 0
RQ_MAX == 100

\* The grid point i of anomalia_ndvi's universe, i in 0..(NDVI_MAX - NDVI_MIN):
\* start + i * delta, the step delta exceeding a hundredth by eps hundredths.
\* Up to i = 5 the sum rounds to the double of the hundredth, and the grid
\* point is the hundredth.
an(i) == <<NDVI_MIN + i, IF i <= 5 THEN 0 ELSE i>>

\* universe.min() and universe.max() of anomalia_ndvi.
AN_MIN == an(0)
AN_MAX == an(NDVI_MAX - NDVI_MIN)

TermosAT == {"frio_prejudicial", "ideal", "calor_moderado", "calor_extremo"}
TermosDH == {"ideal_ou_excesso", "deficit_leve", "deficit_moderado", "seca_severa"}
TermosNDVI == {"muito_abaixo_media", "abaixo_media", "na_media_ou_acima"}
TermosRQ == {"baixo", "moderado", "alto", "critico"}

(***************************************************************************)
(* _definir_funcoes_pertinencia: each term at an abscissa of its universe. *)
(***************************************************************************)
anomalia_termica(t, x) ==
    CASE t = "frio_prejudicial" -> trapmf(x, -15, -15, -10, -5)
      [] t = "ideal"            -> trimf(x, -7, 0, 7)
      [] t = "calor_moderado"   -> trimf(x, 1, 2, 3)
      [] t = "calor_extremo"    -> trapmf(x, 11, 14, 15, 15)

\* Mutant of deficit_hidrico: the breakpoints of deficit_leve and
\* deficit_moderado exchanged.
deficit_hidricoTrocado(t, x) ==
    CASE t = "ideal_ou_excesso" -> trapmf(x, 0, 0, 50, 100)
      [] t = "deficit_leve"     -> trimf(x, 100, 150, 200)
      [] t = "deficit_moderado" -> trimf(x, 50, 100, 150)
      [] t = "seca_severa"      -> trapmf(x, 150, 225, 300, 300)

deficit_hidrico(t, x) ==
    CASE t = "ideal_ou_excesso" -> trapmf(x, 0, 0, 50, 100)
      [] t = "deficit_leve"     -> trimf(x, 50, 100, 150)
      [] t = "deficit_moderado" -> trimf(x, 100, 150, 200)
      [] t = "seca_severa"      -> trapmf(x, 150, 225, 300, 300)

\* x in hundredths: a grid point an(i) when the library samples the term,
\* which trapmf and trimf compare with the breakpoints as it stands.
anomalia_ndvi(t, x) ==
    CASE t = "muito_abaixo_media" -> trapmf(x, -40, -40, -25, -15)
      [] t = "abaixo_media"       -> trimf(x, -20, -10, 0)
      [] t = "na_media_ou_acima"  -> trapmf(x, -5, 5, 40, 40)

\* The consequent's terms sampled on its universe 0..100 (n a whole point).
\* The breakpoints 47.5, 77.5 and 97.5 are not sample points, so the
\* generators are applied in half points.
risco_quebra_safra(t, n) ==
    CASE t = "baixo"    -> trimf(H(2 * n), 0, 30, 60)
      [] t = "moderado" -> trimf(H(2 * n), 60, 95, 130)
      [] t = "alto"     -> trimf(H(2 * n), 120, 155, 190)
      [] t = "critico"  -> trapmf(H(2 * n), 180, 195, 200, 200)

\* term.mf: the sampled curve the library stores for each consequent term
\* (its universe is exact, so the samples have no infinitesimal part).
RQmf == [t \in TermosRQ |-> [n \in RQ_MIN..RQ_MAX |-> risco_quebra_safra(t, n)[1]]]

(***************************************************************************)
(* _definir_regras: the 47 rules in the order of self.regras.  A rule is   *)
(* the AND of at most one term of each antecedent ("*" where the rule does *)
(* not mention the variable) and one consequent term; every rule has the   *)
(* library's default weight 1.                                             *)
(***************************************************************************)
Rule(n, d, a, c) == [ndvi |-> n, dh |-> d, at |-> a, rq |-> c]

regras == <<
    Rule("na_media_ou_acima",   "ideal_ou_excesso",  "frio_prejudicial", "moderado"),  \* regra_1
    Rule("na_media_ou_acima",   "ideal_ou_excesso",  "ideal",            "baixo"),  \* regra_2
    Rule("na_media_ou_acima",   "ideal_ou_excesso",  "calor_moderado",   "baixo"),  \* regra_3
    Rule("na_media_ou_acima",   "ideal_ou_excesso",  "calor_extremo",    "moderado"),  \* regra_4
    Rule("na_media_ou_acima",   "deficit_leve",      "frio_prejudicial", "moderado"),  \* regra_5
    Rule("na_media_ou_acima",   "deficit_leve",      "ideal",            "baixo"),  \* regra_6
    Rule("na_media_ou_acima",   "deficit_leve",      "calor_moderado",   "moderado"),  \* regra_7
    Rule("na_media_ou_acima",   "deficit_leve",      "calor_extremo",    "alto"),  \* regra_8
    Rule("na_media_ou_acima",   "deficit_moderado",  "frio_prejudicial", "alto"),  \* regra_9
    Rule("na_media_ou_acima",   "deficit_moderado",  "ideal",            "moderado"),  \* regra_10
    Rule("na_media_ou_acima",   "deficit_moderado",  "calor_moderado",   "alto"),  \* regra_11
    Rule("na_media_ou_acima",   "deficit_moderado",  "calor_extremo",    "critico"),  \* regra_12
    Rule("na_media_ou_acima",   "seca_severa",       "frio_prejudicial", "alto"),  \* regra_13
    Rule("na_media_ou_acima",   "seca_severa",       "ideal",            "alto"),  \* regra_14
    Rule("na_media_ou_acima",   "seca_severa",       "calor_moderado",   "critico"),  \* regra_15
    Rule("na_media_ou_acima",   "seca_severa",       "calor_extremo",    "critico"),  \* regra_16
    Rule("abaixo_media",        "ideal_ou_excesso",  "ideal",            "moderado"),  \* regra_17
    Rule("abaixo_media",        "deficit_leve",      "ideal",            "alto"),  \* regra_18
    Rule("abaixo_media",        "deficit_moderado",  "ideal",            "alto"),  \* regra_19
    Rule("abaixo_media",        "seca_severa",       "ideal",            "critico"),  \* regra_20
    Rule("abaixo_media",        "ideal_ou_excesso",  "calor_moderado",   "alto"),  \* regra_21
    Rule("abaixo_media",        "ideal_ou_excesso",  "calor_extremo",    "alto"),  \* regra_22
    Rule("abaixo_media",        "deficit_leve",      "calor_moderado",   "alto"),  \* regra_23
    Rule("abaixo_media",        "deficit_leve",      "calor_extremo",    "critico"),  \* regra_24
    Rule("abaixo_media",        "ideal_ou_excesso",  "frio_prejudicial", "alto"),  \* regra_25
    Rule("abaixo_media",        "deficit_leve",      "frio_prejudicial", "alto"),  \* regra_26
    Rule("muito_abaixo_media",  "ideal_ou_excesso",  "ideal",            "alto"),  \* regra_27
    Rule("muito_abaixo_media",  "deficit_leve",      "ideal",            "alto"),  \* regra_28
    Rule("muito_abaixo_media",  "deficit_moderado",  "ideal",            "critico"),  \* regra_29
    Rule("muito_abaixo_media",  "seca_severa",       "ideal",            "critico"),  \* regra_30
    Rule("muito_abaixo_media",  "ideal_ou_excesso",  "calor_extremo",    "critico"),  \* regra_31
    Rule("muito_abaixo_media",  "deficit_leve",      "calor_extremo",    "critico"),  \* regra_32
    Rule("muito_abaixo_media",  "deficit_moderado",  "calor_extremo",    "critico"),  \* regra_33
    Rule("muito_abaixo_media",  "seca_severa",       "calor_extremo",    "critico"),  \* regra_34
    Rule("muito_abaixo_media",  "ideal_ou_excesso",  "calor_moderado",   "alto"),  \* regra_35
    Rule("muito_abaixo_media",  "deficit_leve",      "calor_moderado",   "critico"),  \* regra_36
    Rule("muito_abaixo_media",  "deficit_moderado",  "calor_moderado",   "critico"),  \* regra_37
    Rule("muito_abaixo_media",  "seca_severa",       "calor_moderado",   "critico"),  \* regra_38
    Rule("muito_abaixo_media",  "ideal_ou_excesso",  "frio_prejudicial", "alto"),  \* regra_39
    Rule("muito_abaixo_media",  "deficit_leve",      "frio_prejudicial", "alto"),  \* regra_40
    Rule("muito_abaixo_media",  "deficit_moderado",  "frio_prejudicial", "critico"),  \* regra_41
    Rule("muito_abaixo_media",  "seca_severa",       "frio_prejudicial", "critico"),  \* regra_42
    Rule("*",                   "seca_severa",       "calor_extremo",    "critico"),  \* regra_43
    Rule("*",                   "seca_severa",       "frio_prejudicial", "alto"),  \* regra_44
    Rule("*",                   "seca_severa",       "*",                "alto"),  \* regra_45
    Rule("muito_abaixo_media",  "*",                 "*",                "alto"),  \* regra_46
    Rule("na_media_ou_acima",   "ideal_ou_excesso",  "ideal",            "baixo")   \* regra_47
>>

(***************************************************************************)
(* Fuzzification of the three crisp inputs held by the simulation: the     *)
(* degree of every term of every antecedent at the stored input, by linear *)
(* interpolation of the term's samples on the universe's grid.             *)
(***************************************************************************)

\* interp_membership(universe, term.mf, v) for a term of anomalia_ndvi and a
\* stored value v.  A grid point (one of the first six, or the last) gets
\* its sample.  Any other hundredth h = NDVI_MIN + i lies between the grid
\* points i-1 and i, short of the latter by its excess e eps, at the
\* fraction 1 - e eps of the step, so that between the samples s0 and s1 the
\* line gives s1 - (s1 - s0) * e eps, to the first order in eps.
fuzz_ndvi(t, v) ==
    IF v = AN_MAX \/ v = an(v[1] - NDVI_MIN) THEN anomalia_ndvi(t, v)
    ELSE LET i  == v[1] - NDVI_MIN
             s0 == anomalia_ndvi(t, an(i - 1))
             s1 == anomalia_ndvi(t, an(i))
         IN  <<s1[1], s1[2] - (s1[1] - s0[1]) * an(i)[2]>>

\* The universes of the other two antecedents are the integers, and the
\* stored inputs are grid points.
Fuzzify(in) ==
    [at   |-> [t \in TermosAT   |-> anomalia_termica(t, H(in["anomalia_termica"]))],
     dh   |-> [t \in TermosDH   |-> deficit_hidrico(t, H(in["deficit_hidrico"]))],
     ndvi |-> [t \in TermosNDVI |-> fuzz_ndvi(t, in["anomalia_ndvi"])]]

\* Mutant of Firing: "&" taken as the maximum (an OR).
FiringAsOr(r, fz) ==
    LET n == IF r.ndvi = "*" THEN H(0) ELSE fz.ndvi[r.ndvi]
        d == IF r.dh = "*" THEN H(0) ELSE fz.dh[r.dh]
        a == IF r.at = "*" THEN H(0) ELSE fz.at[r.at]
    IN  Max(n, Max(d, a))

\* Firing strength of one rule: "&" is np.fmin over the terms it mentions.
Firing(r, fz) ==
    LET n == IF r.ndvi = "*" THEN H(YS) ELSE fz.ndvi[r.ndvi]
        d == IF r.dh = "*" THEN H(YS) ELSE fz.dh[r.dh]
        a == IF r.at = "*" THEN H(YS) ELSE fz.at[r.at]
    IN  Min(n, Min(d, a))

\* The greatest firing strength among the rules with consequent term t.
MaxFiring(t, fz) ==
    LET fired == { Firing(regras[i], fz) : i \in { j \in DOMAIN regras : regras[j].rq = t } }
    IN  CHOOSE m \in fired : \A f \in fired : LessEq(f, m)

\* term.membership_value after every rule has been computed: the rules that
\* share a consequent term accumulate by maximum.
Cuts(in) ==
    CHOOSE c \in { [t \in TermosRQ |-> MaxFiring(t, fz)] : fz \in {Fuzzify(in)} } : TRUE

(***************************************************************************)
(* Defuzzification, as the library's CrispValueCalculator does it.         *)
(***************************************************************************)

\* A stored ndvi value lies on at most one breakpoint, so the cuts of one
\* computation carry at most one infinitesimal, up to its sign.  The
\* aggregated curve is measured in that infinitesimal, taken as Eps units:
\* a multiple of what keeps every crossing abscissa and every sample whole.
Eps == 42

InEps(cuts) == [t \in TermosRQ |-> <<cuts[t][1], Eps * Sign(cuts[t][2])>>]

\* The test _interp_universe_fast applies to a sample for the cut y.
AtOrAbove(v, y) == IF y = H(0) THEN Less(y, H(v)) ELSE LessEq(y, H(v))

\* The crossing of the cut with the line through the samples i and i+1.
Crossing(t, cut, i) ==
    LET d == RQmf[t][i + 1] - RQmf[t][i]
    IN  <<XS * i + Quot((cut[1] - RQmf[t][i]) * XS, d), Quot(cut[2] * XS, d)>>

\* _interp_universe_fast(universe, term.mf, cut): the abscissae, in 1/XS,
\* where the sampled curve of term t crosses its cut, by linear interpolation
\* between the two samples around each crossing.
interp_universe(t, cut) ==
    { Crossing(t, cut, i) :
        i \in { j \in RQ_MIN..(RQ_MAX - 1) :
                  AtOrAbove(RQmf[t][j], cut) # AtOrAbove(RQmf[t][j + 1], cut) } }

\* interp_membership(universe, term.mf, x): the sampled curve of term t at
\* abscissa x (in 1/XS), linear between neighbouring samples.  An abscissa
\* infinitely close below the sample point n lies between n-1 and n.
interp_membership(t, x) ==
    LET n == IF x[1] % XS = 0 /\ x[2] < 0 THEN (x[1] \div XS) - 1 ELSE x[1] \div XS
        f == x[1] - XS * n
    IN  IF f = 0 /\ x[2] = 0 THEN H(RQmf[t][n])
        ELSE LET d == RQmf[t][n + 1] - RQmf[t][n]
             IN  <<RQmf[t][n] + (d * f) \div XS, (d * x[2]) \div XS>>

\* One sample of the aggregated curve: every term clipped at its cut
\* (np.minimum), the clipped terms joined by np.maximum, starting from zeros.
OutputMf(cuts, x) ==
    LET clip(t) == Min(cuts[t], interp_membership(t, x))
    IN  Max(Max(clip("baixo"), clip("moderado")), Max(clip("alto"), clip("critico")))

\* find_memberships: the universe upsampled with every term's crossing
\* points, and the aggregated curve on it.  cross are the added points.
find_memberships(cuts) ==
    LET cross == UNION { interp_universe(t, cuts[t]) : t \in TermosRQ }
        new_universe == { H(XS * n) : n \in RQ_MIN..RQ_MAX } \cup cross
    IN  [cross |-> cross,
         mfx   |-> [x \in new_universe |-> OutputMf(cuts, x)]]

\* The sample that follows x in the upsampled universe, hi being the next
\* point of the original universe.
NextSample(cross, x, hi) ==
    LET between == { p \in cross : Less(x, p) /\ Less(p, hi) }
    IN  IF between = {} THEN hi
        ELSE CHOOSE p \in between : \A q \in between : LessEq(p, q)

\* mfx.sum() == 0, the test defuzz makes before it divides (no sample is
\* negative, so the sum is zero exactly when every sample is).
ZeroTruthDegree(m) == \A x \in DOMAIN m.mfx : m.mfx[x] = H(0)

\* The checker's integers are 32 bits wide and the moments are not: a large
\* number is kept as three limbs <<a, b, c>> standing for
\* a * Limb^2 + b * Limb + c, normal when 0 <= b, c < Limb.
Limb == 32768

Zero == <<0, 0, 0>>

Norm(v) ==
    LET b == v[2] + v[3] \div Limb
    IN  <<v[1] + b \div Limb, b % Limb, v[3] % Limb>>

Big(n) == Norm(<<0, 0, n>>)

Plus(v, w) == <<v[1] + w[1], v[2] + w[2], v[3] + w[3]>>

\* k * v for a normal v and a k of at most 16 bits.
Times(k, v) == Norm(<<k * v[1], k * v[2], k * v[3]>>)

BigSign(v) ==
    LET n == Norm(v)
    IN  IF n[1] # 0 THEN Sign(n[1]) ELSE Sign(n[2] + n[3])

\* What a segment centroid() skips adds to the sums.
NoSegment == [area |-> <<0, 0, 0>>, moment |-> <<Zero, Zero, Zero, Zero>>]

\* One segment (x1,y1)-(x2,y2) of the curve, as polynomials in the
\* infinitesimal (coefficients in increasing order):
\*   area   = twice its area,           (x2-x1) * (y1+y2)
\*   moment = six times its moment,     (x2-x1) * (y1*(2*x1+x2) + y2*(x1+2*x2))
\* which is the centroid * area that centroid() sums over the segments.  It
\* skips a segment whose two samples are zero.
Segment(x1, x2, y1, y2) ==
    IF y1 = H(0) /\ y2 = H(0) THEN NoSegment ELSE
    LET d0 == x2[1] - x1[1]
        d1 == x2[2] - x1[2]
        u0 == 2 * x1[1] + x2[1]
        u1 == 2 * x1[2] + x2[2]
        v0 == x1[1] + 2 * x2[1]
        v1 == x1[2] + 2 * x2[2]
        w0 == Norm(Plus(Times(y1[1], Big(u0)), Times(y2[1], Big(v0))))
        w1 == Big(y1[1] * u1 + y1[2] * u0 + y2[1] * v1 + y2[2] * v0)
        w2 == Big(y1[2] * u1 + y2[2] * v1)
    IN  [area   |-> << d0 * (y1[1] + y2[1]),
                       d0 * (y1[2] + y2[2]) + d1 * (y1[1] + y2[1]),
                       d1 * (y1[2] + y2[2]) >>,
         moment |-> << Times(d0, w0),
                       Plus(Times(d0, w1), Times(d1, w0)),
                       Plus(Times(d0, w2), Times(d1, w1)),
                       Times(d1, w2) >>]

Sum(a, b) ==
    [area   |-> [k \in 1..3 |-> a.area[k] + b.area[k]],
     moment |-> [k \in 1..4 |-> Plus(a.moment[k], b.moment[k])]]

\* centroid() walks the samples in order.  The model walks one unit interval
\* [x, hi] of the original universe at a time and adds the intervals up by
\* halving the range, which keeps the evaluation shallow.
RECURSIVE Walk(_, _, _)
Walk(m, x, hi) ==
    IF x = hi THEN NoSegment
    ELSE CHOOSE s \in { Sum(Segment(x, x2, m.mfx[x], m.mfx[x2]), Walk(m, x2, hi)) :
                          x2 \in {NextSample(m.cross, x, hi)} } : TRUE

RECURSIVE Sums(_, _, _)
Sums(m, lo, hi) ==
    IF lo + 1 >= hi THEN Walk(m, H(XS * lo), H(XS * hi))
    ELSE LET mid == (lo + hi) \div 2
         IN  Sum(Sums(m, lo, mid), Sums(m, mid, hi))

\* The sign of the polynomial M - q * D from its coefficient j on, for
\* normal coefficients of D and a q of at most 16 bits.
RECURSIVE RestSign(_, _, _, _)
RestSign(M, D, q, j) ==
    IF j > 4 THEN 0
    ELSE LET dj == IF j <= 3 THEN D[j] ELSE Zero
             s  == BigSign(Plus(M[j], Times(0 - q, dj)))
         IN  IF s # 0 THEN s ELSE RestSign(M, D, q, j + 1)

\* The largest q of lo..hi with q * D <= M from the coefficient k on, q = lo
\* being one such, by bisection.
RECURSIVE Largest(_, _, _, _, _)
Largest(M, D, k, lo, hi) ==
    IF lo = hi THEN lo
    ELSE LET mid == (lo + hi + 1) \div 2
         IN  IF RestSign(M, D, mid, k) >= 0 THEN Largest(M, D, k, mid, hi)
             ELSE Largest(M, D, k, lo, mid - 1)

\* The largest whole q with q * D <= M, for polynomials M >= 0 and D > 0 in
\* the infinitesimal that start at the same power of it: the floor of the
\* centroid M / D, which lies on the universe.
FloorRatio(M, D) ==
    LET k == CHOOSE j \in 1..3 : D[j] # Zero /\ \A i \in 1..(j - 1) : D[i] = Zero
    IN  Largest(M, D, k, XS * RQ_MIN, XS * RQ_MAX)

\* centroid(x, mfx) = sum(moment * area) / sum(area), in whole grains:
\* 6 * moment / (3 * 2 * area) is the centroid in 1/XS of a risk point.
\* (The area is never below the machine epsilon the library guards the
\* division with.)
centroid(m) ==
    CHOOSE c \in { FloorRatio(s.moment, [k \in 1..3 |-> Times(3, Big(s.area[k]))]) \div Grain :
                     s \in {Sums(m, RQ_MIN, RQ_MAX)} } : TRUE

\* The outcome of one compute(): the crisp output, or the exception the
\* library raises when the aggregated curve has no mass.
Raised == [kind |-> "raised", score |-> 0]
Value(s) == [kind |-> "value", score |-> s]

\* CrispValueCalculator.defuzz for the aggregated curve m.
defuzz(m) == IF ZeroTruthDegree(m) THEN Raised ELSE Value(centroid(m))

\* ControlSystemSimulation.compute() on the stored inputs: fuzzify, fire and
\* accumulate the rules, aggregate, defuzzify.  (Each stage's result is bound
\* as a value before the next stage reads it.)
compute(in) ==
    CHOOSE out \in { defuzz(m) : m \in { find_memberships(c) : c \in {InEps(Cuts(in))} } } : TRUE

(***************************************************************************)
(* categorizar: the thresholds in points, on a score in grains.            *)
(***************************************************************************)
LimiarModerado == 30
LimiarAlto == 60
LimiarCritico == 90

\* Mutant of categorizar: the boundary values fall in the lower category.
categorizarInclusive(risco) ==
    IF risco * Grain <= LimiarModerado * XS THEN "baixo"
    ELSE IF risco * Grain <= LimiarAlto * XS THEN "moderado"
    ELSE IF risco * Grain <= LimiarCritico * XS THEN "alto"
    ELSE "critico"

\* The source spells the fourth label with an accented i.
categorizar(risco) ==
    IF risco * Grain < LimiarModerado * XS THEN "baixo"
    ELSE IF risco * Grain < LimiarAlto * XS THEN "moderado"
    ELSE IF risco * Grain < LimiarCritico * XS THEN "alto"
    ELSE "critico"

(***************************************************************************)
(* The state machine.  One AgroRiskFuzzy instance, built by __init__, whose *)
(* simulador (a ControlSystemSimulation) holds the input and output        *)
(* dictionaries; callers that each run a script of simular() calls on it,  *)
(* as main() does with its scenarios.  A caller's position is the line of  *)
(* simular it is about to execute.                                         *)
(***************************************************************************)
NumCallers == 2
MaxCalls == 1

Callers == 1..NumCallers

VARIABLES
    pc,       \* caller -> "idle", "l143" .. "l147", "returned"
    roteiro,  \* caller -> the argument triples of the calls it has yet to make
    args,     \* caller -> <<anomalia_temp, deficit_hid, anomalia_ndvi>> of its call
    input,    \* simulador.input: antecedent label -> crisp value (ndvi: a pair)
    output,   \* simulador.output: consequent label -> crisp value
    ret,      \* caller -> the outcome of its last call
    rotulo,   \* caller -> the label categorizar gave its last returned score
    antes,    \* caller -> <<input, output>> as they were when its call began
    hist      \* caller -> the calls it has completed, in order

vars == <<pc, roteiro, args, input, output, ret, rotulo, antes, hist>>

EmptyDict == [k \in {} |-> 0]
Put(d, k, v) == [x \in (DOMAIN d) \cup {k} |-> IF x = k THEN v ELSE d[x]]

NoOutcome == [kind |-> "none", score |-> 0]
NoArgs == <<0, 0, 0>>

\* _InputAcceptor.__setitem__ with clip_to_bounds (the default): the value
\* is truncated to the limits of the antecedent's universe.
Clip(v, lo, hi) == IF v > hi THEN hi ELSE IF v < lo THEN lo ELSE v

\* The same for anomalia_ndvi, whose universe ends at its last grid point,
\* just above NDVI_MAX: a value up to NDVI_MAX is stored as it is.
ClipNdvi(v) == Max(Min(H(v), AN_MAX), AN_MIN)

\* The input dictionary a call alone on the instance computes from.
OwnInput(a) ==
    [k \in {"anomalia_termica", "deficit_hidrico", "anomalia_ndvi"} |->
        CASE k = "anomalia_termica" -> Clip(a[1], AT_MIN, AT_MAX)
          [] k = "deficit_hidrico"  -> Clip(a[2], DH_MIN, DH_MAX)
          [] k = "anomalia_ndvi"    -> ClipNdvi(a[3])]

\* State after AgroRiskFuzzy() for the given scripts.
Built(r) ==
    /\ roteiro = r
    /\ pc = [p \in Callers |-> "idle"]
    /\ args = [p \in Callers |-> NoArgs]
    /\ input = EmptyDict
    /\ output = EmptyDict
    /\ ret = [p \in Callers |-> NoOutcome]
    /\ rotulo = [p \in Callers |-> "-"]
    /\ antes = [p \in Callers |-> <<EmptyDict, EmptyDict>>]
    /\ hist = [p \in Callers |-> <<>>]

\* A caller enters simular with the next triple of its script.
Call(p) ==
    /\ pc[p] = "idle"
    /\ roteiro[p] # <<>>
    /\ args' = [args EXCEPT ![p] = Head(roteiro[p])]
    /\ roteiro' = [roteiro EXCEPT ![p] = Tail(roteiro[p])]
    /\ ret' = [ret EXCEPT ![p] = NoOutcome]
    /\ rotulo' = [rotulo EXCEPT ![p] = "-"]
    /\ antes' = [antes EXCEPT ![p] = <<input, output>>]
    /\ pc' = [pc EXCEPT ![p] = "l143"]
    /\ UNCHANGED <<input, output, hist>>

\* self.simulador.input['anomalia_termica'] = anomalia_temp
SetTermica(p) ==
    /\ pc[p] = "l143"
    /\ input' = Put(input, "anomalia_termica", Clip(args[p][1], AT_MIN, AT_MAX))
    /\ pc' = [pc EXCEPT ![p] = "l144"]
    /\ UNCHANGED <<roteiro, args, output, ret, rotulo, antes, hist>>

\* self.simulador.input['deficit_hidrico'] = deficit_hid
SetDeficit(p) ==
    /\ pc[p] = "l144"
    /\ input' = Put(input, "deficit_hidrico", Clip(args[p][2], DH_MIN, DH_MAX))
    /\ pc' = [pc EXCEPT ![p] = "l145"]
    /\ UNCHANGED <<roteiro, args, output, ret, rotulo, antes, hist>>

\* self.simulador.input['anomalia_ndvi'] = anomalia_ndvi
SetNdvi(p) ==
    /\ pc[p] = "l145"
    /\ input' = Put(input, "anomalia_ndvi", ClipNdvi(args[p][3]))
    /\ pc' = [pc EXCEPT ![p] = "l146"]
    /\ UNCHANGED <<roteiro, args, output, ret, rotulo, antes, hist>>

\* self.simulador.compute(): stores the crisp output, or raises out of
\* simular (the output dictionary keeps what it held).
Compute(p) ==
    /\ pc[p] = "l146"
    /\ \E out \in {compute(input)} :
         IF out.kind = "raised"
         THEN /\ ret' = [ret EXCEPT ![p] = Raised]
              /\ hist' = [hist EXCEPT ![p] = Append(@, [args |-> args[p], ret |-> Raised, rotulo |-> "-"])]
              /\ pc' = [pc EXCEPT ![p] = "idle"]
              /\ UNCHANGED output
         ELSE /\ output' = Put(output, "risco_quebra_safra", out.score)
              /\ pc' = [pc EXCEPT ![p] = "l147"]
              /\ UNCHANGED <<ret, hist>>
    /\ UNCHANGED <<roteiro, args, input, rotulo, antes>>

\* return float(self.simulador.output['risco_quebra_safra'])
Return(p) ==
    /\ pc[p] = "l147"
    /\ ret' = [ret EXCEPT ![p] = Value(output["risco_quebra_safra"])]
    /\ pc' = [pc EXCEPT ![p] = "returned"]
    /\ UNCHANGED <<roteiro, args, input, output, rotulo, antes, hist>>

\* The caller labels the score it got: ar.categorizar(ar.simular(...)).
Categorizar(p) ==
    /\ pc[p] = "returned"
    /\ rotulo' = [rotulo EXCEPT ![p] = categorizar(ret[p].score)]
    /\ hist' = [hist EXCEPT ![p] = Append(@, [args |-> args[p], ret |-> ret[p],
                                               rotulo |-> categorizar(ret[p].score)])]
    /\ pc' = [pc EXCEPT ![p] = "idle"]
    /\ UNCHANGED <<roteiro, args, input, output, ret, antes>>

Next ==
    \E p \in Callers :
        \/ Call(p)
        \/ SetTermica(p)
        \/ SetDeficit(p)
        \/ SetNdvi(p)
        \/ Compute(p)
        \/ Return(p)
        \/ Categorizar(p)

(***************************************************************************)
(* Spec: callers sharing the instance, their steps interleaved.  Each runs *)
(* a script of one to MaxCalls of the scenarios the repository names: the  *)
(* first scenario of main(), the one of test_cenario_extremo, and a warm,  *)
(* wet, green one.                                                         *)
(***************************************************************************)
Cenarios == { <<0, 50, 10>>, <<12, 210, -20>>, <<8, 50, 10>> }

RECURSIVE Scripts(_, _)
Scripts(S, n) ==
    IF n = 0 THEN {<<>>}
    ELSE LET shorter == Scripts(S, n - 1)
         IN  shorter \cup { <<x>> \o r : x \in S, r \in { q \in shorter : Len(q) = n - 1 } }

Init == \E r \in [Callers -> Scripts(Cenarios, MaxCalls) \ {<<>>}] : Built(r)

Spec == Init /\ [][Next]_vars

(***************************************************************************)
(* SpecFn: simular and categorizar as functions of their arguments.  One   *)
(* caller makes one call on a fresh instance, its arguments drawn from a   *)
(* grid over the three universes and a little beyond them.  The grid holds *)
(* every scenario listed in main() and the one of the test.                *)
(***************************************************************************)
GradeTermica == (AT_MIN..AT_MAX) \cup {AT_MIN - 3, AT_MAX + 3}
GradeDeficit == { 25 * k : k \in -1..13 } \cup {210, 280} \cup {51, 124, 139, 224, 226, 299}
GradeNdvi == { 5 * k : k \in -9..9 }
Grade == GradeTermica \X GradeDeficit \X GradeNdvi

Solo(script) == [p \in Callers |-> IF p = 1 THEN script ELSE <<>>]

InitFn == \E g \in Grade : Built(Solo(<<g>>))

SpecFn == InitFn /\ [][Next]_vars

(***************************************************************************)
(* SpecMono: one caller sweeps the water deficit over its whole universe,  *)
(* mm by mm, in as many calls in a row on the instance, with               *)
(* anomalia_termica at the peak of 'ideal' and anomalia_ndvi at one        *)
(* hundredth of the plateau [0.05, 0.4] of 'na_media_ou_acima': upwards at *)
(* every one of them, and downwards too at the two ends of the plateau,    *)
(* where the sampled curve is short of 1.                                  *)
(***************************************************************************)
MonoDeficit == DH_MIN..DH_MAX
MonoNdvi == 5..NDVI_MAX
MonoDown == {5, NDVI_MAX}

Sweep(n, dir) ==
    [k \in 1..Cardinality(MonoDeficit) |->
        <<0, IF dir = "up" THEN DH_MIN + (k - 1) ELSE DH_MAX - (k - 1), n>>]

InitMono ==
    \E n \in MonoNdvi, dir \in {"up", "down"} :
        /\ dir = "down" => n \in MonoDown
        /\ Built(Solo(Sweep(n, dir)))

SpecMono == InitMono /\ [][Next]_vars

(***************************************************************************)
(* SpecCat: categorizar applied to every score of [0, 100], grain by       *)
(* grain: the caller holds a returned score and labels it.                 *)
(***************************************************************************)
Scores == ((RQ_MIN * XS) \div Grain)..((RQ_MAX * XS) \div Grain)

InitCat ==
    \E s \in Scores :
        /\ roteiro = [p \in Callers |-> <<>>]
        /\ pc = [p \in Callers |-> IF p = 1 THEN "returned" ELSE "idle"]
        /\ args = [p \in Callers |-> NoArgs]
        /\ input = EmptyDict
        /\ output = EmptyDict
        /\ ret = [p \in Callers |-> IF p = 1 THEN Value(s) ELSE NoOutcome]
        /\ rotulo = [p \in Callers |-> "-"]
        /\ antes = [p \in Callers |-> <<EmptyDict, EmptyDict>>]
        /\ hist = [p \in Callers |-> <<>>]

NextCat == \E p \in Callers : Categorizar(p)

SpecCat == InitCat /\ [][NextCat]_vars

(***************************************************************************)
(* The claims.                                                             *)
(***************************************************************************)
Completed(p) == ret[p].kind # "none"

InUniverse(a) ==
    /\ a[1] \in AT_MIN..AT_MAX
    /\ a[2] \in DH_MIN..DH_MAX
    /\ a[3] \in NDVI_MIN..NDVI_MAX

Rank(l) == CASE l = "baixo" -> 0 [] l = "moderado" -> 1 [] l = "alto" -> 2 [] l = "critico" -> 3

\* C1: on a fresh instance simular(12, 210, -0.2) returns a score >= 90
\* (test_cenario_extremo).
C1_RegressionScenario ==
    \A p \in Callers :
        (Completed(p) /\ args[p] = <<12, 210, -20>>) =>
            (ret[p].kind = "value" /\ ret[p].score * Grain >= 90 * XS)

\* C2: whatever the interleaving of the callers' steps on the shared
\* instance, every call ends as a call alone with the same three arguments
\* ends: with the same score, or raising where that one raises.
C2_Deterministic ==
    \A p \in Callers : Completed(p) => ret[p] = compute(OwnInput(args[p]))

\* C3: for every input triple inside the three universes, at least one of
\* the 47 rules fires with a strictly positive strength on the stored inputs.
C3_RuleCoverage ==
    \A p \in Callers :
        (pc[p] = "l146" /\ InUniverse(args[p])) =>
            \E fz \in {Fuzzify(input)} :
                \E i \in DOMAIN regras : Less(H(0), Firing(regras[i], fz))

\* C4: for all inputs, inside their universe or clamped into it, simular
\* returns a value, and the value lies in [0, 100].
C4_ScoreInRange ==
    \A p \in Callers :
        Completed(p) =>
            (ret[p].kind = "value" /\ ret[p].score * Grain >= RQ_MIN * XS
                                   /\ ret[p].score * Grain <= RQ_MAX * XS)

\* C5: the scenarios (12, 280, -0.35) and (15, 300, 0.4) are both
\* categorized critico.
C5_ExtremeScenariosCritico ==
    \A p \in Callers : \A i \in DOMAIN hist[p] :
        hist[p][i].args \in { <<12, 280, -35>>, <<15, 300, 40>> } =>
            hist[p][i].rotulo = "critico"

\* C6: (0, 50, 0.1) is categorized baixo, (2, 100, -0.05) moderado and
\* (5, 250, -0.3) alto.
C6_ListedScenarios ==
    \A p \in Callers : \A i \in DOMAIN hist[p] :
        /\ hist[p][i].args = <<0, 50, 10>>   => hist[p][i].rotulo = "baixo"
        /\ hist[p][i].args = <<2, 100, -5>>  => hist[p][i].rotulo = "moderado"
        /\ hist[p][i].args = <<5, 250, -30>> => hist[p][i].rotulo = "alto"

\* C7: with anomalia_termica at 0 and anomalia_ndvi on the plateau
\* [0.05, 0.4] of na_media_ou_acima, of two calls that both return a score
\* the one with the smaller (or equal) water deficit never gets the higher
\* category, in the order baixo < moderado < alto < critico: for every pair
\* of the calls a caller has made once its script is through.
C7_MonotoneInDeficit ==
    \A p \in Callers :
        roteiro[p] = <<>> =>
            \A i \in DOMAIN hist[p], j \in DOMAIN hist[p] :
                ( /\ hist[p][i].args[2] <= hist[p][j].args[2]
                  /\ hist[p][i].ret.kind = "value" /\ hist[p][j].ret.kind = "value"
                  /\ hist[p][i].args[1] = 0 /\ hist[p][j].args[1] = 0
                  /\ hist[p][i].args[3] \in 5..NDVI_MAX /\ hist[p][j].args[3] = hist[p][i].args[3]
                  /\ hist[p][i].args[2] \in DH_MIN..DH_MAX /\ hist[p][j].args[2] \in DH_MIN..DH_MAX )
                => Rank(hist[p][i].rotulo) <= Rank(hist[p][j].rotulo)

\* A caller has swept the deficit down from 300 to 0, one call for every mm
\* at an ndvi of 0.4, every call returned a score, and the category went
\* from alto to baixo.
C7_Witness ==
    \E p \in Callers :
        /\ roteiro[p] = <<>>
        /\ Len(hist[p]) = Cardinality(MonoDeficit)
        /\ \A i \in DOMAIN hist[p] :
              hist[p][i].ret.kind = "value" /\ hist[p][i].args = <<0, DH_MAX - (i - 1), NDVI_MAX>>
        /\ hist[p][1].rotulo = "alto"
        /\ hist[p][Len(hist[p])].rotulo = "baixo"

\* C8: categorizar returns one of the four labels: baixo on [0,30),
\* moderado on [30,60), alto on [60,90), critico on [90,100]; 30, 60 and 90
\* belong to the upper category.
C8_Thresholds ==
    \A p \in Callers :
        (pc[p] = "idle" /\ ret[p].kind = "value") =>
            /\ rotulo[p] \in {"baixo", "moderado", "alto", "critico"}
            /\ \E s \in {ret[p].score * Grain} :
                  /\ rotulo[p] = "baixo"    <=> (0 <= s /\ s < 30 * XS)
                  /\ rotulo[p] = "moderado" <=> (30 * XS <= s /\ s < 60 * XS)
                  /\ rotulo[p] = "alto"     <=> (60 * XS <= s /\ s < 90 * XS)
                  /\ rotulo[p] = "critico"  <=> (90 * XS <= s /\ s <= 100 * XS)

\* The boundary score 90 has been labelled, and labelled critico.
C8_Witness ==
    \E p \in Callers : ret[p] = Value((90 * XS) \div Grain) /\ rotulo[p] = "critico"

\* C9: when simular has returned or raised, the simulador's input and
\* output dictionaries hold what they held before the call.
C9_NoSharedMutation ==
    \A p \in Callers : Completed(p) => <<input, output>> = antes[p]

\* C10: with deficit_hidrico in [225, 300] and the other two inputs inside
\* their universes, no rule with consequent baixo or moderado fires, alto
\* is cut at strength 1, simular returns, and the category is alto.
C10_SevereDroughtIsAlto ==
    \A p \in Callers :
        (InUniverse(args[p]) /\ args[p][2] >= 225) =>
            /\ pc[p] = "l146" =>
                  \E c \in {Cuts(input)} :
                      c["baixo"] = H(0) /\ c["moderado"] = H(0) /\ c["alto"] = H(YS)
            /\ Completed(p) => (ret[p].kind = "value" /\ categorizar(ret[p].score) = "alto")
            /\ rotulo[p] # "-" => rotulo[p] = "alto"

\* The hottest, driest call, with critico cut at strength 1 as well, has
\* been categorized alto.
C10_Witness ==
    \E p \in Callers :
        /\ args[p] = <<15, 300, 40>>
        /\ ret[p].kind = "value"
        /\ ret[p].score * Grain >= 82 * XS
        /\ rotulo[p] = "alto"

====
